---- MODULE Spec2Model ----
(***************************************************************************)
(* RandomSequence<T> (src/src/sequence.rs): a cursor over a pseudo-random  *)
(* permutation of every value of an unsigned integer type T.               *)
(*                                                                         *)
(* The integer type is modelled at a width of Bits bits, with the wrapping *)
(* arithmetic of the source.  The builder (RandomSequenceBuilder: its      *)
(* permute_qpr, its fields and into_iter) is not part of sequence.rs; it   *)
(* is modelled from the specification's contract for the Parameter Source. *)
(***************************************************************************)
EXTENDS Integers, Sequences, FiniteSets, TLC

\* Width of the modelled unsigned integer type T, in bits.
Bits == 2

\* Number of values of T, the type itself and T::MAX.
N == 2 ^ Bits
T == 0 .. (N - 1)
MAX == N - 1

\* T::one()
one == 1 % N

\* WrappingAdd::wrapping_add and WrappingSub::wrapping_sub on T.
\* An addition that stops at T::MAX instead of wrapping.
saturating_add(a, b) == IF a + b > N - 1 THEN N - 1 ELSE a + b

wrapping_add(a, b) == (a + b) % N
\* A subtraction that stops at 0 instead of wrapping.
saturating_sub(a, b) == IF a >= b THEN a - b ELSE 0

wrapping_sub(a, b) == ((a - b) + N) % N

\* The ^ operator of T (bitwise exclusive or), bit by bit.
RECURSIVE BitXor(_, _, _)
BitXor(a, b, k) ==
    IF k = 0 THEN 0
    ELSE ((a + b) % 2) + 2 * BitXor(a \div 2, b \div 2, k - 1)

xor(a, b) == BitXor(a, b, Bits)

(***************************************************************************)
(* The Parameter Source: bijections of T that config.permute may be.       *)
(***************************************************************************)
IsPrime(p) == p > 1 /\ \A d \in 2 .. (p - 1) : p % d # 0

\* The largest prime p = 3 (mod 4) among the values of T.
Prime ==
    CHOOSE p \in T : /\ IsPrime(p) /\ p % 4 = 3
                     /\ \A q \in T : (IsPrime(q) /\ q % 4 = 3) => q <= p

\* The quadratic-residue permutation of the article the source cites.
Qpr ==
    [x \in T |->
        IF x >= Prime THEN x
        ELSE LET residue == (x * x) % Prime
             IN  IF 2 * x <= Prime THEN residue ELSE Prime - residue]

Affine == [x \in T |-> (5 * x + 3) % N]

RECURSIVE Reverse(_, _)
Reverse(x, k) ==
    IF k = 0 THEN 0
    ELSE (x % 2) * (2 ^ (k - 1)) + Reverse(x \div 2, k - 1)

BitReversal == [x \in T |-> Reverse(x, Bits)]

Permutes == {Qpr, Affine, BitReversal}

\* RandomSequenceBuilder<T>: the configuration a cursor is bound to.
Configs ==
    [permute : Permutes, intermediate_xor : T, derived_offset : T, origin : T]

(***************************************************************************)
(* A defective Parameter Source: functions of T that are total but not     *)
(* injective, as a defect in the builder could make config.permute.        *)
(***************************************************************************)
\* Qpr without the fold of the upper half of the residues.
QprUnfolded ==
    [x \in T |-> IF x >= Prime THEN x ELSE (x * x) % Prime]

\* A reduction modulo the prime that maps the values above it back down.
Reduced == [x \in T |-> x % Prime]

\* A permute that loses the lowest bit.
ClearLowBit == [x \in T |-> x - (x % 2)]

FaultyPermutes == {QprUnfolded, Reduced, ClearLowBit}

FaultyConfigs ==
    [permute : FaultyPermutes, intermediate_xor : T, derived_offset : T, origin : T]

\* RandomSequenceBuilder::permute_qpr
permute_qpr(config, x) == config.permute[x]

\* RandomSequenceBuilder::into_iter, also From<RandomSequenceBuilder<T>>::from
into_iter(config) ==
    [config              |-> config,
     start_index         |-> config.origin,
     current_index       |-> config.origin,
     intermediate_offset |-> config.derived_offset]

(***************************************************************************)
(* RandomSequence<T>: a cursor is a record of the struct's four fields.    *)
(* A method taking &mut self yields the cursor after the call and the      *)
(* value returned.                                                         *)
(***************************************************************************)
\* n_internal that hands the index back without calling config.permute_qpr.
n_internal_unpermuted(self, idx) ==
    xor(wrapping_add(idx, self.intermediate_offset), self.config.intermediate_xor)

\* n_internal as its doc comment writes it: the offset is added to the index,
\* before the first permutation, not to that permutation's result.
n_internal_as_documented(self, idx) ==
    LET shifted == wrapping_add(idx, self.intermediate_offset)
    IN  permute_qpr(self.config,
                    xor(permute_qpr(self.config, shifted), self.config.intermediate_xor))

\* n_internal with an addition that saturates at T::MAX instead of wrapping.
n_internal_saturating(self, idx) ==
    LET sum == permute_qpr(self.config, idx) + self.intermediate_offset
        inner_residue == IF sum > MAX THEN MAX ELSE sum
    IN  permute_qpr(self.config, xor(inner_residue, self.config.intermediate_xor))

n_internal(self, idx) ==
    LET inner_residue ==
            wrapping_add(permute_qpr(self.config, idx), self.intermediate_offset)
    IN  permute_qpr(self.config, xor(inner_residue, self.config.intermediate_xor))

\* next that steps first and reads afterwards, as prev() does.
next_step_then_read(self) ==
    LET moved == [self EXCEPT !.current_index = wrapping_add(@, one)]
    IN  [self |-> moved, ret |-> n_internal(moved, moved.current_index)]

\* next that moves the origin along with the position.
next_moving_origin(self) ==
    [self |-> [self EXCEPT !.current_index = wrapping_add(@, one),
                           !.start_index = wrapping_add(@, one)],
     ret  |-> n_internal(self, self.current_index)]

next(self) ==
    LET value == n_internal(self, self.current_index)
    IN  [self |-> [self EXCEPT !.current_index = wrapping_add(@, one)],
         ret  |-> value]

\* prev that reads the value first and steps back afterwards, as next() does.
prev_read_then_step(self) ==
    [self |-> [self EXCEPT !.current_index = wrapping_sub(@, one)],
     ret  |-> n_internal(self, self.current_index)]

prev(self) ==
    LET moved == [self EXCEPT !.current_index = wrapping_sub(@, one)]
    IN  [self |-> moved, ret |-> n_internal(moved, moved.current_index)]

\* n that counts from the cursor's position instead of its origin.
n_from_current(self, relative_index) ==
    n_internal(self, wrapping_add(self.current_index, relative_index))

\* n that takes its argument as an absolute index, ignoring start_index.
n_absolute(self, relative_index) == n_internal(self, relative_index)

n(self, relative_index) ==
    LET actual_index == wrapping_add(self.start_index, relative_index)
    IN  n_internal(self, actual_index)

\* index with a subtraction that stops at 0 instead of wrapping.
index_saturating(self) ==
    IF self.current_index >= self.start_index
    THEN self.current_index - self.start_index
    ELSE 0

index(self) == wrapping_sub(self.current_index, self.start_index)

\* Option<T>
Some(v) == [kind |-> "Some", val |-> v]
None == [kind |-> "None", val |-> 0]
\* A plain T returned by an inherent method, in the same shape.
Plain(v) == [kind |-> "T", val |-> v]

\* Iterator::next that ends the iteration at the last index of T.
Iterator_next_finite(self) ==
    IF self.current_index = MAX
    THEN [self |-> self, ret |-> None]
    ELSE LET r == next(self) IN [self |-> r.self, ret |-> Some(r.ret)]

\* Iterator::next and DoubleEndedIterator::next_back
Iterator_next(self) ==
    LET r == next(self) IN [self |-> r.self, ret |-> Some(r.ret)]

next_back(self) ==
    LET r == prev(self) IN [self |-> r.self, ret |-> Some(r.ret)]

\* #[derive(Clone)]: a field-by-field copy.
clone(self) == self

(***************************************************************************)
(* The calls of config.permute_qpr each method makes, in the order it      *)
(* makes them: the list of their arguments.                                *)
(***************************************************************************)
\* n_internal that keeps the first permutation's result and calls once.
n_internal_permutes_once(self, idx) == <<idx>>

n_internal_permutes(self, idx) ==
    LET inner_residue ==
            wrapping_add(permute_qpr(self.config, idx), self.intermediate_offset)
    IN  <<idx, xor(inner_residue, self.config.intermediate_xor)>>

next_permutes(self) == n_internal_permutes(self, self.current_index)

prev_permutes(self) ==
    n_internal_permutes(self, wrapping_sub(self.current_index, one))

n_permutes(self, relative_index) ==
    n_internal_permutes(self, wrapping_add(self.start_index, relative_index))

index_permutes(self) == <<>>

(***************************************************************************)
(* State.  seqs maps the name of each live cursor to its fields: the       *)
(* cursor "sequence" built by into_iter and, once cloned, its "copy".      *)
(* last holds, per cursor, the latest call made on it: the method, its     *)
(* argument, the value returned and the cursor's position before the call. *)
(* hist is history kept for the properties: the number of next() and       *)
(* prev() calls made on the cursor since construction (the adapters'       *)
(* calls counted with them) and, while every stepping call so far went in  *)
(* one direction, each value returned with the position it was asked at.   *)
(* cost is a meter on the configuration, switched on or off when the       *)
(* cursor is built: the number of permute_qpr calls made and of values     *)
(* returned since, and the arguments of the calls the latest method made.  *)
(* histogram is the state of tests::test_distribution while it runs.       *)
(***************************************************************************)
VARIABLES seqs, last, hist, cost, histogram

vars == <<seqs, last, hist, cost, histogram>>

\* Exploration caps on the stepping calls made on one cursor: in runs that mix
\* next() and prev(), and on each cursor once a copy exists.
MaxMixedOps == 3
MaxCloneOps == 2
\* Values returned while the meter is on.
MaxMetered == MaxMixedOps
\* Runs of next() alone cover two full cycles, runs of prev() alone one.
MaxForward == 2 * N + 1
MaxBackward == N + 1

Unit == [kind |-> "()", val |-> 0]

Position(self) == [current_index |-> self.current_index, index |-> index(self)]

Call(op, arg, ret, self) ==
    [op |-> op, arg |-> arg, ret |-> ret, before |-> Position(self)]

\* The meter's reading when a cursor is built, and the test not running.
Meter(on) == [metering |-> on, permutes |-> 0, values |-> 0, calls |-> <<>>]

NotRunning ==
    [phase |-> "idle", config |-> <<>>, taken |-> 0,
     data_buckets |-> <<>>, shares |-> <<>>]

\* config.into_iter() for a configuration drawn from configs.
Built(configs, metering) ==
    \E config \in configs :
        /\ seqs = [c \in {"sequence"} |-> into_iter(config)]
        /\ last = [c \in {"sequence"} |->
                      Call("into_iter", 0, Unit, into_iter(config))]
        /\ hist = [c \in {"sequence"} |-> [nNext |-> 0, nPrev |-> 0, run |-> <<>>]]
        /\ cost = Meter(metering)
        /\ histogram = NotRunning

Init == Built(Configs, FALSE)

Steps(c) == hist[c].nNext + hist[c].nPrev

\* The caps as guards: whether one more call forward, or backward, is explored.
MayAdvance(c) ==
    IF "copy" \in DOMAIN seqs THEN Steps(c) < MaxCloneOps
    ELSE \/ Steps(c) < MaxMixedOps
         \/ hist[c].nPrev = 0 /\ hist[c].nNext < MaxForward

MayRetreat(c) ==
    IF "copy" \in DOMAIN seqs THEN Steps(c) < MaxCloneOps
    ELSE \/ Steps(c) < MaxMixedOps
         \/ hist[c].nNext = 0 /\ hist[c].nPrev < MaxBackward

\* With the meter on, whether one more value is explored.
MayProduce == cost.metering => cost.values < MaxMetered

\* The meter after a method that made these calls and returned so many values.
Charge(calls, produced) ==
    IF cost.metering
    THEN [cost EXCEPT !.permutes = @ + Len(calls),
                      !.values = @ + produced,
                      !.calls = calls]
    ELSE cost

Entry(v, self) == [val |-> v, at |-> Position(self)]

Forward(h, v, self) ==
    [h EXCEPT !.nNext = @ + 1,
              !.run = IF h.nPrev = 0 THEN Append(h.run, Entry(v, self)) ELSE <<>>]

Backward(h, v, self) ==
    [h EXCEPT !.nPrev = @ + 1,
              !.run = IF h.nNext = 0 THEN Append(h.run, Entry(v, self)) ELSE <<>>]

\* next() on a cursor whose index state is shared with its clone.
NextOpShared(c) ==
    /\ c \in DOMAIN seqs
    /\ MayAdvance(c)
    /\ MayProduce
    /\ LET r == next(seqs[c])
       IN  /\ seqs' = [d \in DOMAIN seqs |->
                          [seqs[d] EXCEPT !.current_index = r.self.current_index]]
           /\ last' = [last EXCEPT ![c] = Call("next", 0, Plain(r.ret), seqs[c])]
           /\ hist' = [hist EXCEPT ![c] = Forward(@, r.ret, seqs[c])]
    /\ cost' = Charge(next_permutes(seqs[c]), 1)
    /\ UNCHANGED histogram

\* sequence.next()
NextOp(c) ==
    /\ c \in DOMAIN seqs
    /\ MayAdvance(c)
    /\ MayProduce
    /\ LET r == next(seqs[c])
       IN  /\ seqs' = [seqs EXCEPT ![c] = r.self]
           /\ last' = [last EXCEPT ![c] = Call("next", 0, Plain(r.ret), seqs[c])]
           /\ hist' = [hist EXCEPT ![c] = Forward(@, r.ret, seqs[c])]
    /\ cost' = Charge(next_permutes(seqs[c]), 1)
    /\ UNCHANGED histogram

\* sequence.prev()
PrevOp(c) ==
    /\ c \in DOMAIN seqs
    /\ MayRetreat(c)
    /\ MayProduce
    /\ LET r == prev(seqs[c])
       IN  /\ seqs' = [seqs EXCEPT ![c] = r.self]
           /\ last' = [last EXCEPT ![c] = Call("prev", 0, Plain(r.ret), seqs[c])]
           /\ hist' = [hist EXCEPT ![c] = Backward(@, r.ret, seqs[c])]
    /\ cost' = Charge(prev_permutes(seqs[c]), 1)
    /\ UNCHANGED histogram

\* sequence.n(i)
NOp(c, i) ==
    /\ c \in DOMAIN seqs
    /\ MayProduce
    /\ last' = [last EXCEPT ![c] = Call("n", i, Plain(n(seqs[c], i)), seqs[c])]
    /\ cost' = Charge(n_permutes(seqs[c], i), 1)
    /\ UNCHANGED <<seqs, hist, histogram>>

\* sequence.index()
IndexOp(c) ==
    /\ c \in DOMAIN seqs
    /\ last' = [last EXCEPT ![c] = Call("index", 0, Plain(index(seqs[c])), seqs[c])]
    /\ cost' = Charge(index_permutes(seqs[c]), 0)
    /\ UNCHANGED <<seqs, hist, histogram>>

\* Iterator::next(&mut sequence)
IterNextOp(c) ==
    /\ c \in DOMAIN seqs
    /\ MayAdvance(c)
    /\ MayProduce
    /\ LET r == Iterator_next(seqs[c])
       IN  /\ seqs' = [seqs EXCEPT ![c] = r.self]
           /\ last' = [last EXCEPT ![c] = Call("Iterator::next", 0, r.ret, seqs[c])]
           /\ hist' = [hist EXCEPT ![c] = Forward(@, r.ret.val, seqs[c])]
    /\ cost' = Charge(next_permutes(seqs[c]), 1)
    /\ UNCHANGED histogram

\* DoubleEndedIterator::next_back(&mut sequence)
NextBackOp(c) ==
    /\ c \in DOMAIN seqs
    /\ MayRetreat(c)
    /\ MayProduce
    /\ LET r == next_back(seqs[c])
       IN  /\ seqs' = [seqs EXCEPT ![c] = r.self]
           /\ last' = [last EXCEPT ![c] = Call("next_back", 0, r.ret, seqs[c])]
           /\ hist' = [hist EXCEPT ![c] = Backward(@, r.ret.val, seqs[c])]
    /\ cost' = Charge(prev_permutes(seqs[c]), 1)
    /\ UNCHANGED histogram

\* sequence.clone()
CloneOp ==
    /\ "copy" \notin DOMAIN seqs
    /\ Steps("sequence") < MaxCloneOps
    /\ seqs' = [c \in {"sequence", "copy"} |->
                   IF c = "copy" THEN clone(seqs["sequence"]) ELSE seqs[c]]
    /\ last' = [c \in {"sequence", "copy"} |->
                   IF c = "copy"
                   THEN Call("clone", 0, Unit, seqs["sequence"])
                   ELSE last[c]]
    /\ hist' = [c \in {"sequence", "copy"} |->
                   IF c = "copy" THEN hist["sequence"] ELSE hist[c]]
    /\ UNCHANGED <<cost, histogram>>

\* One cursor and every operation on it.
Next ==
    \/ NextOp("sequence")
    \/ PrevOp("sequence")
    \/ \E i \in T : NOp("sequence", i)
    \/ IndexOp("sequence")
    \/ IterNextOp("sequence")
    \/ NextBackOp("sequence")

Spec == Init /\ [][Next]_vars

\* A cursor built from a defective configuration, and every operation on it.
InitFaulty == Built(FaultyConfigs, FALSE)

SpecFaulty == InitFaulty /\ [][Next]_vars

\* A cursor whose permute_qpr calls are metered, and every operation on it.
InitCost == Built(Configs, TRUE)

SpecCost == InitCost /\ [][Next]_vars

\* A cursor and its clone, each stepped on its own.
NextClone ==
    \/ CloneOp
    \/ \E c \in {"sequence", "copy"} : NextOp(c)
    \/ \E c \in {"sequence", "copy"} : PrevOp(c)

SpecClone == Init /\ [][NextClone]_vars

(***************************************************************************)
(* tests::test_distribution as test_u8_distribution instantiates it:       *)
(* test_distribution!(test_u8_distribution, u8, 256).  The sequence under  *)
(* test is a RandomSequence<u8>; its builder is modelled as the            *)
(* quadratic-residue permutation of 8 bits with a few seeds.               *)
(***************************************************************************)
\* $type = u8 and $check
u8_BITS == 8
check == 256
BUCKETS == 100

u8_MAX == 2 ^ u8_BITS - 1
u8 == 0 .. u8_MAX

u8_Prime ==
    CHOOSE p \in u8 : /\ IsPrime(p) /\ p % 4 = 3
                      /\ \A q \in u8 : (IsPrime(q) /\ q % 4 = 3) => q <= p

u8_Qpr ==
    [x \in u8 |->
        IF x >= u8_Prime THEN x
        ELSE LET residue == (x * x) % u8_Prime
             IN  IF 2 * x <= u8_Prime THEN residue ELSE u8_Prime - residue]

\* RandomSequenceBuilder::<u8>::rand(&mut OsRng): the seeds it may draw.
u8_Seeds == {0, 1, u8_MAX}

u8_Configs ==
    [intermediate_xor : u8_Seeds, derived_offset : u8_Seeds, origin : u8_Seeds]

\* RandomSequenceBuilder::<u8>::permute_qpr
u8_permute_qpr(config, x) == u8_Qpr[x]

\* n_internal of RandomSequence<u8>
u8_n_internal(config, idx) ==
    LET inner_residue ==
            (u8_permute_qpr(config, idx) + config.derived_offset) % (u8_MAX + 1)
    IN  u8_permute_qpr(config,
                       BitXor(inner_residue, config.intermediate_xor, u8_BITS))

\* The k-th value of config.into_iter().take(check), counting from 0.
taken_value(config, k) ==
    u8_n_internal(config, (config.origin + k) % (u8_MAX + 1))

\* |i| ((i as f64 / u8::MAX as f64) / BUCKETS as f64) as usize
\* The quotient is i / (u8::MAX * BUCKETS), at most 0.01; the cast truncates.
bucket(i) == i \div (u8_MAX * BUCKETS)

\* *data_buckets.entry(i).or_insert(0) += 1
entry_add_one(map, i) ==
    IF i \in DOMAIN map
    THEN [map EXCEPT ![i] = @ + 1]
    ELSE [k \in DOMAIN map \cup {i} |-> IF k = i THEN 1 ELSE map[k]]

\* A fraction num / den standing for the f64 of the source.
Ratio(num, den) == [num |-> num, den |-> den]

\* (0..=BUCKETS).map(|i| *data_buckets.get(&i).unwrap_or(&0) as f64 / check as f64)
normalised(map) ==
    [i \in 0 .. BUCKETS |->
        Ratio(IF i \in DOMAIN map THEN map[i] ELSE 0, check)]

\* BUCKETS times 1 / BUCKETS, then 1 / u8::MAX pushed for the last bucket.
uniform_buckets ==
    [i \in 0 .. BUCKETS |->
        IF i < BUCKETS THEN Ratio(1, BUCKETS) ELSE Ratio(1, u8_MAX)]

InitHistogram ==
    \E config \in u8_Configs :
        /\ seqs = <<>>
        /\ last = <<>>
        /\ hist = <<>>
        /\ cost = Meter(FALSE)
        /\ histogram = [phase |-> "sampling", config |-> config, taken |-> 0,
                        data_buckets |-> <<>>, shares |-> <<>>]

\* One value taken from the iterator, mapped to its bucket and counted.
SampleOp ==
    /\ histogram.phase = "sampling"
    /\ histogram.taken < check
    /\ LET i == bucket(taken_value(histogram.config, histogram.taken))
       IN  histogram' = [histogram EXCEPT
                            !.taken = @ + 1,
                            !.data_buckets = entry_add_one(@, i)]
    /\ UNCHANGED <<seqs, last, hist, cost>>

\* take(check) is exhausted: the counts become each bucket's share.
NormaliseOp ==
    /\ histogram.phase = "sampling"
    /\ histogram.taken = check
    /\ histogram' = [histogram EXCEPT
                        !.phase = "normalised",
                        !.shares = normalised(histogram.data_buckets)]
    /\ UNCHANGED <<seqs, last, hist, cost>>

NextHistogram ==
    \/ SampleOp
    \/ NormaliseOp

SpecHistogram == InitHistogram /\ [][NextHistogram]_vars

(***************************************************************************)
(* Properties.                                                             *)
(***************************************************************************)
Live == DOMAIN seqs

IsBijection(f) == \A x, y \in DOMAIN f : f[x] = f[y] => x = y

\* The cursor has only been stepped forward (next, Iterator::next) so far:
\* hist[c].run is then the list of everything it returned since it was built.
ForwardOnly(c) == hist[c].nPrev = 0

\* The cursor has only been stepped backward (prev, next_back) so far.
BackwardOnly(c) == hist[c].nNext = 0

Min(a, b) == IF a <= b THEN a ELSE b

\* C1: with config.permute a bijection of T (any intermediate_offset,
\* intermediate_xor and start_index), the first k values that repeated next()
\* returns on a fresh cursor are pairwise distinct for every k <= 2^Bits, and
\* the first 2^Bits of them are all the values of T, each once.
C1_FirstValuesDistinct ==
    \A c \in Live :
        (ForwardOnly(c) /\ IsBijection(seqs[c].config.permute)) =>
            LET run == hist[c].run
                k == Min(Len(run), N)
            IN  /\ \A i, j \in 1 .. k : run[i].val = run[j].val => i = j
                /\ Len(run) >= N => {run[i].val : i \in 1 .. N} = T

C1_Witness ==
    \E c \in Live :
        /\ ForwardOnly(c)
        /\ Len(hist[c].run) = N
        /\ seqs[c].config.permute = Qpr
        /\ seqs[c].config.intermediate_xor # 0
        /\ seqs[c].intermediate_offset # 0
        /\ seqs[c].start_index # 0

\* The call last made on c was a stepping call that returned a value.
Produced(c) == last[c].op \in {"next", "prev", "Iterator::next", "next_back"}

SteppedForward(c) == last[c].op \in {"next", "Iterator::next"}

\* The index() position the last returned value belongs to: where the cursor
\* stood before a forward call, where it stands after a backward call.
OutIndex(c) == IF SteppedForward(c) THEN last[c].before.index ELSE index(seqs[c])

\* C2: two cursors with the same configuration (permute, intermediate_xor,
\* intermediate_offset, start_index) that were driven by the same calls return
\* the same value and report the same index(); and a returned value depends
\* on nothing but the configuration and the index it belongs to, whatever calls
\* each cursor went through before.
C2_Determinism ==
    \A c, d \in Live :
        /\ seqs[c].config = seqs[d].config
        /\ seqs[c].start_index = seqs[d].start_index
        /\ seqs[c].intermediate_offset = seqs[d].intermediate_offset
        /\ ( /\ last[c].op = last[d].op
             /\ hist[c].nNext = hist[d].nNext
             /\ hist[c].nPrev = hist[d].nPrev )
           => /\ last[c].ret = last[d].ret
              /\ index(seqs[c]) = index(seqs[d])
        /\ (Produced(c) /\ Produced(d) /\ OutIndex(c) = OutIndex(d))
           => last[c].ret = last[d].ret

C2_Witness ==
    /\ Live = {"sequence", "copy"}
    /\ last["sequence"].op = "next"
    /\ last["copy"].op = "prev"
    /\ hist["sequence"].nPrev = 0
    /\ OutIndex("sequence") = OutIndex("copy")

\* C3: for every i < 2^Bits, n(i) equals the i-th value (from 0) that repeated
\* next() calls returned on the fresh cursor of the same configuration and
\* start_index, whether n is called on the stepped cursor or on a fresh one.
C3_RandomAccessConsistency ==
    \A c \in Live :
        ForwardOnly(c) =>
            LET run == hist[c].run
                fresh == into_iter(seqs[c].config)
            IN  /\ \A i \in T : i < Len(run) =>
                      /\ n(seqs[c], i) = run[i + 1].val
                      /\ n(fresh, i) = run[i + 1].val
                /\ (last[c].op = "n" /\ last[c].arg < Len(run))
                   => last[c].ret = Plain(run[last[c].arg + 1].val)

C3_Witness ==
    \E c \in Live :
        /\ ForwardOnly(c)
        /\ Len(hist[c].run) >= N
        /\ last[c].op = "n"
        /\ last[c].arg = MAX
        /\ seqs[c].start_index # 0
        /\ seqs[c].config.permute = Qpr

\* C4: prev() undoes next() and next() undoes prev(): when one is called
\* right after the other on a cursor, current_index and index() are back to
\* what they were before the first of the two calls, and the second call
\* returns the value the first returned.
C4_PrevInvertsNext ==
    [][\A c \in Live :
          ( \/ last[c].op = "next" /\ last'[c].op = "prev"
            \/ last[c].op = "prev" /\ last'[c].op = "next" )
          => /\ last'[c].ret = last[c].ret
             /\ seqs'[c].current_index = last[c].before.current_index
             /\ index(seqs'[c]) = last[c].before.index
             /\ seqs'[c] = [seqs[c] EXCEPT
                              !.current_index = last[c].before.current_index]]_vars

\* next() then prev() across the upper boundary of T: from current_index = MAX.
C4_Witness ==
    \E c \in Live :
        /\ last[c].op = "prev"
        /\ hist[c].nNext = 1 /\ hist[c].nPrev = 1
        /\ last[c].before.current_index = 0
        /\ seqs[c].current_index = MAX
        /\ seqs[c].start_index = MAX

\* (a - b) mod 2^Bits
NetSteps(a, b) == (a + (N - 1) * b) % N

\* C5: after a next() calls and b prev() calls on a fresh cursor, in any
\* order and for any start_index, index() is (a - b) mod 2^Bits, which is
\* current_index - start_index with wrapping subtraction: 0 on a fresh
\* cursor and 0 again after 2^Bits net forward steps.
C5_IndexAccounting ==
    \A c \in Live :
        LET expected == NetSteps(hist[c].nNext, hist[c].nPrev)
        IN  /\ index(seqs[c]) = expected
            /\ index(seqs[c]) = wrapping_sub(seqs[c].current_index, seqs[c].start_index)
            /\ seqs[c].current_index = wrapping_add(seqs[c].start_index, expected)
            /\ last[c].op = "index" => last[c].ret = Plain(expected)

C5_Witness ==
    \E c \in Live :
        /\ last[c].op = "index"
        /\ hist[c].nNext = N /\ hist[c].nPrev = 0
        /\ last[c].ret = Plain(0)
        /\ seqs[c].start_index # 0

\* C6: backward stepping wraps below index 0: on a fresh cursor the i-th
\* value (from 0) returned by repeated prev() / next_back() is n(MAX - i), the
\* values of a forward traversal taken from its end, and the cursor moves
\* from current_index 0 to MAX on the way.
C6_BackwardWraps ==
    \A c \in Live :
        BackwardOnly(c) =>
            LET run == hist[c].run
            IN  \A i \in T : i < Len(run) =>
                    /\ run[i + 1].val = n(seqs[c], wrapping_sub(MAX, i))
                    /\ run[i + 1].val = n(into_iter(seqs[c].config), wrapping_sub(MAX, i))
                    /\ run[i + 1].at.index = wrapping_sub(0, i)

C6_Witness ==
    \E c \in Live :
        /\ BackwardOnly(c)
        /\ Len(hist[c].run) = N
        /\ last[c].op = "next_back"
        /\ seqs[c].start_index = 0
        /\ \E i \in 1 .. N : /\ hist[c].run[i].at.current_index = 0
                             /\ hist[c].run[i].val = n(seqs[c], wrapping_sub(MAX, i - 1))

\* C7: n(i) returns the value of the composed permutation at
\* (start_index + i) mod 2^Bits and changes no field of the cursor, so index()
\* is the same after the call; and in every state that next()/prev() calls
\* reach n(i) is, for every i, what it is on the fresh cursor, whatever
\* current_index has become.
C7_RandomAccessIsPure ==
    /\ [](\A c \in Live : \A i \in T :
            n(seqs[c], i) = n(into_iter(seqs[c].config), i))
    /\ [][\A c \in Live :
          (last'[c].op = "n" /\ last'[c] # last[c])
             => /\ seqs'[c] = seqs[c]
                /\ index(seqs'[c]) = index(seqs[c])
                /\ last'[c].ret =
                     Plain(n_internal(seqs[c],
                                      (seqs[c].start_index + last'[c].arg) % N))]_vars

C7_Witness ==
    \E c \in Live :
        /\ last[c].op = "n"
        /\ last[c].arg # 0
        /\ hist[c].nNext > 0 /\ hist[c].nPrev > 0
        /\ index(seqs[c]) # 0
        /\ seqs[c].start_index # 0
        /\ last[c].ret = Plain(n(into_iter(seqs[c].config), last[c].arg))

\* C8: the sequence has period 2^Bits: over consecutive next() calls, the
\* call made 2^Bits calls after another is made at the same current_index and
\* index() and returns the same value, and after exactly 2^Bits calls the
\* cursor is back where the first of them found it.
C8_Cyclic ==
    \A c \in Live :
        ForwardOnly(c) =>
            LET run == hist[c].run
            IN  /\ \A j \in 1 .. Len(run) : j > N => run[j] = run[j - N]
                /\ Len(run) >= N => Position(seqs[c]) = run[Len(run) - N + 1].at

C8_Witness ==
    \E c \in Live :
        /\ ForwardOnly(c)
        /\ Len(hist[c].run) = 2 * N
        /\ hist[c].run[2 * N] = hist[c].run[N]
        /\ seqs[c].current_index = seqs[c].start_index
        /\ seqs[c].start_index # 0
        /\ seqs[c].config.permute = Affine

\* C9: the iteration adapters never end and never fail: Iterator::next
\* returns Some(v) with v the value next() returns in that state, and
\* next_back returns Some(v) with v the value of prev(), each leaving the
\* cursor as next() / prev() leaves it; no call returns None, also past
\* 2^Bits steps.
C9_AdaptersNeverEnd ==
    [][\A c \in Live :
          /\ last'[c].ret # None
          /\ (last'[c].op = "Iterator::next" /\ <<last'[c], hist'[c]>> # <<last[c], hist[c]>>)
             => /\ last'[c].ret = Some(next(seqs[c]).ret)
                /\ seqs'[c] = next(seqs[c]).self
          /\ (last'[c].op = "next_back" /\ <<last'[c], hist'[c]>> # <<last[c], hist[c]>>)
             => /\ last'[c].ret = Some(prev(seqs[c]).ret)
                /\ seqs'[c] = prev(seqs[c]).self]_vars

C9_Witness ==
    \E c \in Live :
        /\ last[c].op = "Iterator::next"
        /\ hist[c].nNext > N
        /\ last[c].ret.kind = "Some"
        /\ last[c].before.current_index = MAX
        /\ seqs[c].current_index = 0

\* C10: clones are independent: the copy starts as the cursor it was cloned
\* from; a next()/prev() call on one of the two leaves the other's fields,
\* its index() and the values it will return unchanged; and both keep the same
\* configuration, so n(i) is the same on both for every i.
C10_ClonesIndependent ==
    /\ [][/\ \A c \in Live : \A d \in Live \ {c} :
                seqs'[c] # seqs[c]
                => /\ seqs'[d] = seqs[d]
                   /\ index(seqs'[d]) = index(seqs[d])
                   /\ next(seqs'[d]) = next(seqs[d])
                   /\ prev(seqs'[d]) = prev(seqs[d])
          /\ (DOMAIN seqs' # Live)
             => (seqs'["copy"] = seqs["sequence"]
                 /\ seqs'["sequence"] = seqs["sequence"])]_vars
    /\ [](\A c, d \in Live :
            /\ seqs[c].config = seqs[d].config
            /\ seqs[c].start_index = seqs[d].start_index
            /\ \A i \in T : n(seqs[c], i) = n(seqs[d], i))

C10_Witness ==
    /\ Live = {"sequence", "copy"}
    /\ last["sequence"].op = "next"
    /\ last["copy"].op = "prev"
    /\ hist["copy"].nPrev = MaxCloneOps
    /\ index(seqs["sequence"]) # index(seqs["copy"])
    /\ \A i \in T : n(seqs["sequence"], i) = n(seqs["copy"], i)

\* The call last made on c returned a value of the sequence.
ReturnedValue(c) == Produced(c) \/ last[c].op = "n"

\* The absolute index the last returned value was computed for.
AskedAt(c) ==
    IF SteppedForward(c) THEN last[c].before.current_index
    ELSE IF last[c].op = "n" THEN (seqs[c].start_index + last[c].arg) % N
    ELSE seqs[c].current_index

\* permute( ((permute(i) + intermediate_offset) mod 2^Bits) XOR mix_mask )
Composed(self, i) ==
    LET permute == self.config.permute
        sum == (permute[i] + self.intermediate_offset) % N
    IN  permute[xor(sum, self.config.intermediate_xor)]

Documented(self, i) ==
    LET permute == self.config.permute
        shifted == (i + self.intermediate_offset) % N
    IN  permute[xor(permute[shifted], self.config.intermediate_xor)]

\* C12: n_internal(index) computes
\* qpr(qpr(index + intermediate_offset) ^ intermediate_xor), as its doc comment
\* states: the offset is added to the index before the first permutation, and
\* the mask is applied to the result of the first permutation.
C12_AsDocumented ==
    \A c \in Live :
        ReturnedValue(c) => last[c].ret.val = Documented(seqs[c], AskedAt(c))

\* The step is a call of op on c (a stepping call always adds to hist[c]).
Stepped(c, ops) == last'[c].op \in ops /\ hist'[c] # hist[c]

\* C13: in every reachable state next() returns the value n(index()) had
\* just before the call and then advances current_index by one, and prev()
\* first retreats current_index by one and returns the value n(index()) has
\* just after the call.
C13_ReadThenStep ==
    [][\A c \in Live :
          /\ Stepped(c, {"next"})
             => /\ last'[c].ret = Plain(n(seqs[c], index(seqs[c])))
                /\ seqs'[c].current_index = (seqs[c].current_index + 1) % N
                /\ index(seqs'[c]) = (index(seqs[c]) + 1) % N
          /\ Stepped(c, {"prev"})
             => /\ last'[c].ret = Plain(n(seqs'[c], index(seqs'[c])))
                /\ seqs'[c].current_index = (seqs[c].current_index + N - 1) % N
                /\ index(seqs'[c]) = (index(seqs[c]) + N - 1) % N]_vars

C13_Witness ==
    \E c \in Live :
        /\ last[c].op = "prev"
        /\ hist[c].nNext > 0 /\ hist[c].nPrev > 1
        /\ seqs[c].start_index # 0
        /\ index(seqs[c]) = MAX
        /\ last[c].ret = Plain(n(seqs[c], index(seqs[c])))
        /\ last[c].ret # Plain(n(seqs[c], (index(seqs[c]) + 1) % N))

\* C14: the cursor is mutated only by next() and prev() (the adapters call
\* them), which change current_index alone, by exactly +1 and -1 modulo
\* 2^Bits; start_index, intermediate_offset and the configuration stay what
\* construction made them, and n() and index() change nothing.
C14_OnlyCurrentIndexMoves ==
    /\ [][\A c \in Live :
             /\ seqs'[c] # seqs[c]
                => \/ /\ Stepped(c, {"next", "Iterator::next"})
                      /\ seqs'[c] = [seqs[c] EXCEPT
                                       !.current_index = (@ + 1) % N]
                   \/ /\ Stepped(c, {"prev", "next_back"})
                      /\ seqs'[c] = [seqs[c] EXCEPT
                                       !.current_index = (@ + N - 1) % N]
             /\ (last'[c].op \in {"n", "index"} /\ last'[c] # last[c])
                => seqs'[c] = seqs[c]
             /\ seqs'[c].config = seqs[c].config]_vars
    /\ [](\A c \in Live :
             /\ seqs[c].start_index = seqs[c].config.origin
             /\ seqs[c].intermediate_offset = seqs[c].config.derived_offset
             /\ seqs[c].config \in Configs)

C14_Witness ==
    \E c \in Live :
        /\ last[c].op = "index"
        /\ hist[c].nNext > 0 /\ hist[c].nPrev > 0
        /\ seqs[c].current_index # seqs[c].start_index
        /\ seqs[c].start_index = seqs[c].config.origin
        /\ seqs[c].start_index # 0
        /\ seqs[c].intermediate_offset # 0

\* The values the first 2^Bits forward calls returned, as a set.
FullCycle(c) == {hist[c].run[k].val : k \in 1 .. N}

\* C15: a config.permute that is total but not injective is not detected:
\* every next(), prev() and n() call (and every adapter call) still returns
\* a value of T, never a fault and never None, and the first full cycle of
\* 2^Bits next() calls has at least one value twice and leaves at least one
\* value of T out.
C15_FaultNotDetected ==
    \A c \in Live :
        ~IsBijection(seqs[c].config.permute) =>
            /\ last[c].ret # None
            /\ ReturnedValue(c) => last[c].ret.val \in T
            /\ \A i \in T : n(seqs[c], i) \in T
            /\ (ForwardOnly(c) /\ Len(hist[c].run) >= N) =>
                   /\ \E j, k \in 1 .. N :
                          j # k /\ hist[c].run[j].val = hist[c].run[k].val
                   /\ \E v \in T : v \notin FullCycle(c)

C15_Witness ==
    \E c \in Live :
        /\ ~IsBijection(seqs[c].config.permute)
        /\ last[c].op = "next"
        /\ ForwardOnly(c) /\ Len(hist[c].run) = N
        /\ Cardinality(FullCycle(c)) \in 2 .. (N - 1)
        /\ seqs[c].intermediate_offset # 0
        /\ seqs[c].config.intermediate_xor # 0

\* C16: every value produced by next(), prev() or n() (or an adapter) costs
\* exactly two calls of config.permute_qpr, the second applied to the first
\* one's result after the offset and the mask, and index() makes none: after
\* any sequence of operations the number of permute_qpr calls is twice the
\* number of values produced.
C16_TwoPermutesPerValue ==
    cost.metering =>
        /\ cost.permutes = 2 * cost.values
        /\ \A c \in Live :
               LET permute == seqs[c].config.permute
                   first == permute[cost.calls[1]]
                   perturbed == xor((first + seqs[c].intermediate_offset) % N,
                                    seqs[c].config.intermediate_xor)
               IN  /\ cost.values >= Steps(c)
                   /\ ReturnedValue(c) =>
                          /\ Len(cost.calls) = 2
                          /\ cost.calls[1] = AskedAt(c)
                          /\ cost.calls[2] = perturbed
                          /\ last[c].ret.val = permute[cost.calls[2]]
                   /\ last[c].op = "index" => cost.calls = <<>>

C16_Witness ==
    \E c \in Live :
        /\ cost.metering
        /\ last[c].op = "n"
        /\ hist[c].nNext > 0 /\ hist[c].nPrev > 0
        /\ cost.values > Steps(c)
        /\ cost.permutes = 2 * cost.values
        /\ cost.calls[2] # cost.calls[1]

\* C17: the histogram of the distribution test spreads the sampled values
\* over its 100 equal-width buckets: once all 256 values of a full 8-bit
\* cycle are counted, each of the buckets 0..99 holds 2 or 3 of them, about
\* the uniform share of 1/100.
C17_HistogramSpread ==
    histogram.phase = "normalised" =>
        \A b \in 0 .. (BUCKETS - 1) :
            /\ histogram.shares[b].num \in {2, 3}
            /\ histogram.shares[b].den = check
            /\ uniform_buckets[b] = Ratio(1, BUCKETS)

====
